---- MODULE Spec2Model ----
(***************************************************************************)
(* A model of tiatoolbox/tools/patchextraction.py: the geometry helper     *)
(* PatchExtractor.get_last_steps, the factory get_patch_extractor with the *)
(* constructors it calls, and PointsPatchExtractor.extract_patches, whose  *)
(* loops are followed one slot assignment at a time.                       *)
(*                                                                         *)
(* Python values are modelled as follows.  A str is a sequence of          *)
(* one-character strings.  An image is an array of h rows and w columns    *)
(* whose pixel at (r, c) (0-indexed) has the intensity r*w + c + 1, so all *)
(* pixels of an image differ and none is 0, the value np.zeros fills a     *)
(* slot with.  A point row is <<label, x, y>>, i.e. row[0], row[1], row[2] *)
(* of the source are row[1], row[2], row[3] here.  A raised exception is   *)
(* an outcome of kind "raised" that carries the exception's class name.    *)
(*                                                                         *)
(* The module also models the two processing hooks of                      *)
(* tiatoolbox/models/abc.py, ModelABC.preproc_func and                     *)
(* ModelABC.postproc_func.  A value assigned to a hook is None, a function,*)
(* an instance of torch.nn.Module (which is callable) or a value that is   *)
(* not callable.                                                           *)
(***************************************************************************)
EXTENDS Integers, Sequences, FiniteSets, TLC

VARIABLES
    call,        \* the call being made, or the last one made: [op |-> ..., ...]
    outcome,     \* what that call returned or raised
    self,        \* the attributes of the object the methods run on
    pc,          \* "idle", "loop" (inside extract_patches) or "done"
    image,       \* extract_patches: the padded image [h, w, src_h, src_w]
    img_patches, \* extract_patches: the slots allocated by np.zeros
    labels,      \* extract_patches: the label list
    cell_id,     \* extract_patches: the identifier list
    cell_tot,    \* extract_patches: the identifier of the current point
    iter_tot,    \* extract_patches: the index of the next slot (0-indexed)
    row,         \* extract_patches: position of the outer loop in input_points
    h,           \* extract_patches: the row-offset loop variable
    w,           \* extract_patches: the column-offset loop variable
    win,         \* extract_patches: start_h, end_h, start_w, end_w last computed
    prev         \* history: the extract_patches call completed before this one

vars == <<call, outcome, self, pc, image, img_patches, labels, cell_id,
          cell_tot, iter_tot, row, h, w, win, prev>>

-----------------------------------------------------------------------------
(* Bounds of the model. *)

MaxDim == 2        \* image heights and widths are 1 or MaxDim
MaxPad == 2        \* pad_y and pad_x are 0..MaxPad
MaxPatch == 2      \* img_patch_h and img_patch_w are 1..MaxPatch
MaxArg == 10       \* get_last_steps arguments are -MaxArg..MaxArg
CaseDepth == 2     \* letters of a method name that may be upper-cased one by one

(* Program constants. *)

DefaultPatch == 224       \* get_patch_extractor: img_patch_h=224, img_patch_w=224
DefaultPad == 0           \* get_patch_extractor: pad_y=0, pad_x=0
DefaultNumExamples == 9   \* PointsPatchExtractor.__init__: num_examples_per_patch=9

None == [kind |-> "None"]
NoOutcome == [kind |-> "none"]
EmptyList == -1   \* the [] that fills labels and cell_id before the loops run
Raised(exc) == [kind |-> "raised", exc |-> exc]
Returned(v) == [kind |-> "returned", value |-> v]

-----------------------------------------------------------------------------
(* Python arithmetic. *)

\* math.ceil(a / b) for integers a and b # 0: true division, then the ceiling.
CeilDiv(a, b) ==
    LET n == IF b < 0 THEN -a ELSE a
        d == IF b < 0 THEN -b ELSE b
    IN  -((-n) \div d)

\* int(a / 2) for an integer a >= -1: true division, truncated toward zero.
IntHalf(a) == IF a < 0 THEN 0 ELSE a \div 2

\* The integer part of np.sqrt(n), n >= 0.
IntSqrt(n) == CHOOSE k \in 0..n : k * k <= n /\ n < (k + 1) * (k + 1)

-----------------------------------------------------------------------------
(* PatchExtractor.get_last_steps *)

nr_step(image_dim, label_patch_dim, stride) ==
    CeilDiv(image_dim - label_patch_dim, stride)

\* A variant that leaves out the step added to the count.
last_step_without_extra_step(image_dim, label_patch_dim, stride) ==
    nr_step(image_dim, label_patch_dim, stride) * stride

last_step(image_dim, label_patch_dim, stride) ==
    (nr_step(image_dim, label_patch_dim, stride) + 1) * stride

\* A variant that validates its arguments, refusing a patch larger than the image.
get_last_steps_result_validating(image_dim, label_patch_dim, stride) ==
    IF stride = 0
    THEN Raised("ZeroDivisionError")
    ELSE IF label_patch_dim > image_dim
    THEN Raised("ValueError")
    ELSE Returned((CeilDiv(image_dim - label_patch_dim, stride) + 1) * stride)

\* The division by stride raises ZeroDivisionError when stride is 0; nothing else
\* in the method can raise for integer arguments.
get_last_steps_result(image_dim, label_patch_dim, stride) ==
    IF stride = 0
    THEN Raised("ZeroDivisionError")
    ELSE Returned(last_step(image_dim, label_patch_dim, stride))

LastStepArgs == (0 - MaxArg)..MaxArg

\* The calls of get_last_steps that the model makes.
LastStepsCalls ==
    [op : {"get_last_steps"}, image_dim : LastStepArgs,
     label_patch_dim : LastStepArgs, stride : LastStepArgs]

get_last_steps ==
    /\ call.op = "get_last_steps"
    /\ outcome = NoOutcome
    /\ outcome' = get_last_steps_result(call.image_dim, call.label_patch_dim,
                                        call.stride)
    /\ UNCHANGED <<call, self, pc, image, img_patches, labels, cell_id, cell_tot,
                   iter_tot, row, h, w, win>>

-----------------------------------------------------------------------------
(* str.lower, on the letters of the Latin alphabet *)

UpperLetters == <<"A", "B", "C", "D", "E", "F", "G", "H", "I", "J", "K", "L", "M",
                  "N", "O", "P", "Q", "R", "S", "T", "U", "V", "W", "X", "Y", "Z">>
LowerLetters == <<"a", "b", "c", "d", "e", "f", "g", "h", "i", "j", "k", "l", "m",
                  "n", "o", "p", "q", "r", "s", "t", "u", "v", "w", "x", "y", "z">>

LowerChar(c) ==
    IF \E i \in DOMAIN UpperLetters : UpperLetters[i] = c
    THEN LowerLetters[CHOOSE i \in DOMAIN UpperLetters : UpperLetters[i] = c]
    ELSE c

UpperChar(c) ==
    IF \E i \in DOMAIN LowerLetters : LowerLetters[i] = c
    THEN UpperLetters[CHOOSE i \in DOMAIN LowerLetters : LowerLetters[i] = c]
    ELSE c

lower(s) == [i \in DOMAIN s |-> LowerChar(s[i])]

-----------------------------------------------------------------------------
(* Construction: the classes' __init__ methods and what super() resolves to *)

\* The method resolution order of each concrete class.
Mro(cls) == <<cls, "PatchExtractor", "ABC", "object">>

\* ABC defines no __init__ of its own; the other classes do (object's is the
\* interpreter's).
DefinesInit(cls) == cls # "ABC"

\* super(after, self).__init__: the first class that follows `after` in the
\* method resolution order of type(self) and defines __init__.
SuperInitOwner(cls, after) ==
    LET mro == Mro(cls)
        at == CHOOSE i \in DOMAIN mro : mro[i] = after
        later == {i \in DOMAIN mro : i > at /\ DefinesInit(mro[i])}
    IN  mro[CHOOSE i \in later : \A j \in later : i <= j]

\* PatchExtractor.__init__: the four attributes it sets on the instance.
PatchExtractor__init__(attrs, kwargs) ==
    Returned([a \in DOMAIN attrs \cup DOMAIN kwargs |->
                 IF a \in DOMAIN kwargs THEN kwargs[a] ELSE attrs[a]])

\* object.__init__ of an instance whose class overrides __init__ takes no
\* argument but the instance: any keyword argument is a TypeError.
object__init__(attrs, kwargs) ==
    IF DOMAIN kwargs # {} THEN Raised("TypeError") ELSE Returned(attrs)

\* super(PatchExtractor, self).__init__(**kwargs) as the three subclasses call
\* it: the lookup starts after PatchExtractor.
SuperInit(cls, attrs, kwargs) ==
    IF SuperInitOwner(cls, "PatchExtractor") = "PatchExtractor"
    THEN PatchExtractor__init__(attrs, kwargs)
    ELSE object__init__(attrs, kwargs)

NoAttrs == [a \in {} |-> 0]

Extend(attrs, more) ==
    [a \in DOMAIN attrs \cup DOMAIN more |->
        IF a \in DOMAIN more THEN more[a] ELSE attrs[a]]

PointsPatchExtractor__init__(img_patch_h, img_patch_w, pad_y, pad_x, input_points, num_examples_per_patch) ==
    LET base == SuperInit("PointsPatchExtractor", NoAttrs,
                          [img_patch_h |-> img_patch_h, img_patch_w |-> img_patch_w,
                           pad_y |-> pad_y, pad_x |-> pad_x])
    IN  IF base.kind = "raised"
        THEN base
        ELSE Returned([cls |-> "PointsPatchExtractor",
                       attrs |-> Extend(base.value,
                           [input_points |-> input_points,
                            num_examples_per_patch |-> num_examples_per_patch])])

\* FixedWindowPatchExtractor.__init__ and VariableWindowPatchExtractor.__init__
\* end in `raise NotImplementedError`, which the call of super() precedes.
WindowPatchExtractor__init__(cls, img_patch_h, img_patch_w) ==
    LET base == SuperInit(cls, NoAttrs,
                          [img_patch_h |-> img_patch_h, img_patch_w |-> img_patch_w])
    IN  IF base.kind = "raised" THEN base ELSE Raised("NotImplementedError")

-----------------------------------------------------------------------------
(* get_patch_extractor *)

POINT == <<"p", "o", "i", "n", "t">>
FIXEDWINDOW == <<"f", "i", "x", "e", "d", "w", "i", "n", "d", "o", "w">>
VARIABLEWINDOW == <<"v", "a", "r", "i", "a", "b", "l", "e", "w", "i", "n", "d", "o", "w">>

\* A variant that compares the name as given, without lower-casing it.
BranchCaseSensitive(method_name) ==
    IF method_name = POINT THEN "point"
    ELSE IF method_name = FIXEDWINDOW THEN "fixedwindow"
    ELSE IF method_name = VARIABLEWINDOW THEN "variablewindow"
    ELSE "else"

\* The branch of the if/elif chain that a method name takes.
Branch(method_name) ==
    IF lower(method_name) = POINT THEN "point"
    ELSE IF lower(method_name) = FIXEDWINDOW THEN "fixedwindow"
    ELSE IF lower(method_name) = VARIABLEWINDOW THEN "variablewindow"
    ELSE "else"

get_patch_extractor_result(method_name, img_patch_h, img_patch_w, input_points, pad_y, pad_x) ==
    LET branch == Branch(method_name)
        made ==
            IF branch = "point"
            THEN PointsPatchExtractor__init__(img_patch_h, img_patch_w, pad_y, pad_x,
                                              input_points, DefaultNumExamples)
            ELSE IF branch = "fixedwindow"
            THEN WindowPatchExtractor__init__("FixedWindowPatchExtractor",
                                              img_patch_h, img_patch_w)
            ELSE IF branch = "variablewindow"
            THEN WindowPatchExtractor__init__("VariableWindowPatchExtractor",
                                              img_patch_h, img_patch_w)
            ELSE Raised("MethodNotSupported")
    IN  [kind |-> made.kind, branch |-> branch,
         exc |-> IF made.kind = "raised" THEN made.exc ELSE "",
         value |-> IF made.kind = "returned" THEN made.value ELSE None]

\* The names the factory is called with: each base name as written, with any
\* of its first CaseDepth letters upper-cased, and wholly upper-cased.
BaseNames ==
    {POINT, FIXEDWINDOW, VARIABLEWINDOW,
     <<"u", "n", "k", "n", "o", "w", "n">>,
     <<"p", "o", "i", "n", "t", "s">>,
     <<"p", "o", "i", "n", "_">>,
     <<>>}

Cased(name, ups) == [i \in DOMAIN name |-> IF i \in ups THEN UpperChar(name[i]) ELSE name[i]]

MethodNames ==
    {Cased(name, ups) : name \in BaseNames, ups \in SUBSET (1..CaseDepth)}
    \cup {Cased(name, DOMAIN name) : name \in BaseNames}

PatchArgs == {DefaultPatch} \cup (1..MaxPatch)
PadArgs == {DefaultPad} \cup (0..MaxPad)

\* The calls of get_patch_extractor that the model makes; input_points is
\* left at its default.
FactoryCalls ==
    [op : {"get_patch_extractor"}, method_name : MethodNames,
     img_patch_h : PatchArgs, img_patch_w : PatchArgs, input_points : {None},
     pad_y : PadArgs, pad_x : PadArgs]

get_patch_extractor ==
    /\ call.op = "get_patch_extractor"
    /\ outcome = NoOutcome
    /\ outcome' = get_patch_extractor_result(call.method_name, call.img_patch_h,
                      call.img_patch_w, call.input_points, call.pad_y, call.pad_x)
    /\ UNCHANGED <<call, self, pc, image, img_patches, labels, cell_id, cell_tot,
                   iter_tot, row, h, w, win>>

-----------------------------------------------------------------------------
(* numpy: arrays, symmetric padding, slicing and broadcast assignment *)

\* The image of src_h rows and src_w columns (see the head of the module).
Img(src_h, src_w) ==
    [r \in 1..src_h |-> [c \in 1..src_w |-> (r - 1) * src_w + (c - 1) + 1]]

\* The source index that np.pad's "symmetric" mode copies to the 0-indexed
\* position i - pad of an axis of length n: the axis mirrored about its edges,
\* edge values included, as often as the padding needs.
Reflect(i, n) ==
    LET t == i % (2 * n) IN IF t < n THEN t ELSE 2 * n - 1 - t

\* np.lib.pad(img, ((pad_y, pad_y), (pad_x, pad_x), (0, 0)), "symmetric")
np_pad(img, pad_y, pad_x) ==
    LET src_h == Len(img)
        src_w == Len(img[1])
    IN  [i \in 1..(src_h + 2 * pad_y) |->
            [j \in 1..(src_w + 2 * pad_x) |->
                img[Reflect(i - 1 - pad_y, src_h) + 1][Reflect(j - 1 - pad_x, src_w) + 1]]]

\* A slice bound as Python normalises it on an axis of length n: a negative
\* bound counts from the end, and every bound is clipped into 0..n.
SliceBound(b, n) ==
    IF b < 0 THEN (IF b + n < 0 THEN 0 ELSE b + n) ELSE (IF b > n THEN n ELSE b)

\* The 0-indexed positions that [start:stop] selects on an axis of length n.
SliceIndices(start, stop, n) ==
    LET lo == SliceBound(start, n)
        hi == SliceBound(stop, n)
    IN  [k \in 1..(IF hi > lo THEN hi - lo ELSE 0) |-> lo + k - 1]

\* image[start_h:end_h, start_w:end_w]
np_slice(img, start_h, end_h, start_w, end_w) ==
    LET rows == SliceIndices(start_h, end_h, Len(img))
        cols == SliceIndices(start_w, end_w, Len(img[1]))
    IN  [a \in DOMAIN rows |-> [b \in DOMAIN cols |-> img[rows[a] + 1][cols[b] + 1]]]

\* A variant that accepts equal lengths only.
BroadcastableExact(n, target) == n = target

\* Whether an axis of length n can be assigned to an axis of length target:
\* numpy broadcasts equal lengths and a length of 1, and nothing else.
Broadcastable(n, target) == n = target \/ n = 1

\* The shape of a slice: (rows, columns); a slice of no rows has no columns
\* to index, its column count is that of the column slice.
SliceShape(img, start_h, end_h, start_w, end_w) ==
    <<Len(SliceIndices(start_h, end_h, Len(img))),
      Len(SliceIndices(start_w, end_w, Len(img[1])))>>

\* The value of a patch_h x patch_w slot after `slot[:, :, :] = piece`, for a
\* piece whose shape broadcasts.
np_assign(piece, patch_h, patch_w) ==
    [a \in 1..patch_h |->
        [b \in 1..patch_w |->
            piece[IF Len(piece) = 1 THEN 1 ELSE a]
                 [IF Len(piece[1]) = 1 THEN 1 ELSE b]]]

\* np.zeros((patch_h, patch_w, depth))
np_zeros(patch_h, patch_w) == [a \in 1..patch_h |-> [b \in 1..patch_w |-> 0]]

-----------------------------------------------------------------------------
(* PointsPatchExtractor.extract_patches *)

\* The values of the model's inputs.  Labels are opaque; a point lies at one
\* of two corners of the largest image, whose x and y differ.
Labels == {0, 1}
NumExamples == {1, 2, 4, 5, DefaultNumExamples}

PointRows == {<<l, xy[1], xy[2]>> : l \in Labels, xy \in {<<1, MaxDim>>, <<MaxDim, 1>>}}

\* input_points as an array of no, one or two rows, or left at None.
PointArrays ==
    {[kind |-> "ndarray", rows |-> rows] :
        rows \in {<<>>} \cup {<<p>> : p \in PointRows}
                 \cup {<<p, q>> : p \in PointRows, q \in PointRows}}

Extractors ==
    [img_patch_h : 1..MaxPatch, img_patch_w : 1..MaxPatch,
     pad_y : 0..MaxPad, pad_x : 0..MaxPad,
     input_points : PointArrays \cup {None},
     num_examples_per_patch : NumExamples]

\* The image argument: an array, the path of a file that imread reads into an
\* array, or a value of another type.
ImageArgs ==
    {[kind |-> "ndarray", array |-> Img(src_h, src_w)] :
        src_h \in {1, MaxDim}, src_w \in {1, MaxDim}}
    \cup {[kind |-> "str", array |-> Img(MaxDim, MaxDim)], None}

\* int(root_num_examples / 2) for root_num_examples = np.sqrt(n): the integer
\* part of half the square root.
IntHalfSqrt(n) == CHOOSE k \in 0..n : 4 * k * k <= n /\ n < 4 * (k + 1) * (k + 1)

start_location(n) == IF n > 1 THEN 0 - IntHalfSqrt(n) ELSE 0

\* A variant whose range ends at the mirror image of its start, and so leaves
\* out the last offset.
end_location_mirrored(n) == IF n > 1 THEN IntHalfSqrt(n) ELSE 1

\* A variant that rounds the square root up to the next integer.
end_location_rounding_up(n) ==
    IF n > 1
    THEN (CHOOSE k \in 1..n : (k - 1) * (k - 1) < n /\ n <= k * k) + start_location(n)
    ELSE 1

\* int(root_num_examples + start_location): the sum is not negative, so the
\* truncation drops the fraction of the square root.
end_location(n) == IF n > 1 THEN IntSqrt(n) + start_location(n) ELSE 1

\* A variant that shifts by the padding alone, taking the points as 0-indexed.
cell_location_zero_indexed(point, pad_y, pad_x) ==
    <<point[3] + pad_y, point[2] + pad_x>>

\* cell_location = [row[2], row[1]], then shifted by the padding less one.
cell_location(point, pad_y, pad_x) ==
    <<point[3] + pad_y - 1, point[2] + pad_x - 1>>

\* A variant that adds the row offset instead of subtracting it.
start_h_adding_offset(location, dh, patch_h) ==
    location[1] + dh - IntHalf(patch_h - 1)

\* A variant that halves the patch width itself, not the width less one.
start_w_half_width(location, dw, patch_w) ==
    location[2] - dw - IntHalf(patch_w)

start_h(location, dh, patch_h) == location[1] - dh - IntHalf(patch_h - 1)
start_w(location, dw, patch_w) == location[2] - dw - IntHalf(patch_w - 1)
end_h(location, dh, patch_h) == start_h(location, dh, patch_h) + patch_h
end_w(location, dw, patch_w) == start_w(location, dw, patch_w) + patch_w

\* A variant that numbers the extracted patches, not the points.
cell_id_entry_per_patch(tot, iter) == iter + 1

\* cell_id[iter_tot] = cell_tot
cell_id_entry(tot, iter) == tot

\* A variant that keeps counting from the value the previous call left.
first_cell_tot_carried(left) == left

\* cell_tot = 1, whatever an earlier call left behind.
first_cell_tot(left) == 1

\* cell_tot after the rows of one more point have been written.
next_cell_tot(tot) == tot + 1

NoWindow == [start_h |-> 0, end_h |-> 0, start_w |-> 0, end_w |-> 0]

\* A variant that answers a value of a wrong type with an empty result.
type_checks_returning_empty(input_points, input_img) ==
    IF input_points.kind # "ndarray" \/ input_img.kind \notin {"str", "ndarray"}
    THEN Returned([img_patches |-> <<>>, labels |-> <<>>, cell_id |-> <<>>])
    ELSE NoOutcome

\* The two checks that open the method: self.input_points is an ndarray, then
\* input_img is a str or an ndarray; each raises Exception otherwise.
type_checks(input_points, input_img) ==
    IF input_points.kind # "ndarray"
    THEN Raised("Exception")
    ELSE IF input_img.kind = "str" \/ input_img.kind = "ndarray"
    THEN NoOutcome
    ELSE Raised("Exception")

\* The entry of the method, up to the first iteration of the loops: the type
\* checks of the points and of the image, the padding and the allocation.
extract_patches ==
    /\ pc \in {"idle", "done"}
    /\ \E input_img \in ImageArgs :
          /\ call' = [op |-> "extract_patches", input_img |-> input_img]
          /\ IF type_checks(self.input_points, input_img) # NoOutcome
             THEN /\ outcome' = type_checks(self.input_points, input_img)
                  /\ pc' = "done"
                  /\ image' = <<>>
                  /\ img_patches' = <<>>
                  /\ labels' = <<>>
                  /\ cell_id' = <<>>
             ELSE LET num_patches_img ==
                          Len(self.input_points.rows) * self.num_examples_per_patch
                  IN  /\ outcome' = NoOutcome
                      /\ pc' = "loop"
                      /\ image' = np_pad(input_img.array, self.pad_y, self.pad_x)
                      /\ img_patches' = [i \in 1..num_patches_img |->
                                            np_zeros(self.img_patch_h, self.img_patch_w)]
                      /\ labels' = [i \in 1..num_patches_img |-> EmptyList]
                      /\ cell_id' = [i \in 1..num_patches_img |-> EmptyList]
    /\ cell_tot' = first_cell_tot(cell_tot)
    /\ iter_tot' = 0
    /\ row' = 1
    /\ h' = start_location(self.num_examples_per_patch)
    /\ w' = start_location(self.num_examples_per_patch)
    /\ win' = NoWindow
    /\ UNCHANGED self

\* One iteration of the innermost loop, with the advance of the three loops
\* that follows it.
extract_patches_loop ==
    /\ pc = "loop"
    /\ row <= Len(self.input_points.rows)
    /\ LET point == self.input_points.rows[row]
           cell_type == point[1]
           patch_h == self.img_patch_h
           patch_w == self.img_patch_w
           location == cell_location(point, self.pad_y, self.pad_x)
           sh == start_h(location, h, patch_h)
           sw == start_w(location, w, patch_w)
           eh == end_h(location, h, patch_h)
           ew == end_w(location, w, patch_w)
           shape == SliceShape(image, sh, eh, sw, ew)
           first == start_location(self.num_examples_per_patch)
           last == end_location(self.num_examples_per_patch)
       IN  /\ win' = [start_h |-> sh, end_h |-> eh, start_w |-> sw, end_w |-> ew]
           /\ IF iter_tot >= Len(labels)
              THEN \* labels[iter_tot] = cell_type: list assignment index out of range
                   /\ outcome' = Raised("IndexError")
                   /\ pc' = "done"
                   /\ UNCHANGED <<img_patches, labels, cell_id, cell_tot, iter_tot,
                                  row, h, w>>
              ELSE /\ labels' = [labels EXCEPT ![iter_tot + 1] = cell_type]
                   /\ cell_id' = [cell_id EXCEPT ![iter_tot + 1] =
                                                  cell_id_entry(cell_tot, iter_tot)]
                   /\ IF ~(Broadcastable(shape[1], patch_h) /\ Broadcastable(shape[2], patch_w))
                      THEN \* could not broadcast input array into the slot
                           /\ outcome' = Raised("ValueError")
                           /\ pc' = "done"
                           /\ UNCHANGED <<img_patches, cell_tot, iter_tot, row, h, w>>
                      ELSE /\ img_patches' =
                                [img_patches EXCEPT ![iter_tot + 1] =
                                    np_assign(np_slice(image, sh, eh, sw, ew),
                                              patch_h, patch_w)]
                           /\ iter_tot' = iter_tot + 1
                           /\ UNCHANGED <<outcome, pc>>
                           /\ IF w + 1 < last
                              THEN /\ w' = w + 1
                                   /\ UNCHANGED <<h, row, cell_tot>>
                              ELSE IF h + 1 < last
                              THEN /\ w' = first
                                   /\ h' = h + 1
                                   /\ UNCHANGED <<row, cell_tot>>
                              ELSE /\ w' = first
                                   /\ h' = first
                                   /\ row' = row + 1
                                   /\ cell_tot' = next_cell_tot(cell_tot)
    /\ UNCHANGED <<call, self, image>>

\* return img_patches, labels, cell_id
extract_patches_return ==
    /\ pc = "loop"
    /\ row > Len(self.input_points.rows)
    /\ outcome' = Returned([img_patches |-> img_patches, labels |-> labels,
                            cell_id |-> cell_id])
    /\ pc' = "done"
    /\ UNCHANGED <<call, self, image, img_patches, labels, cell_id, cell_tot,
                   iter_tot, row, h, w, win>>

\* The arguments of merge_patches: none, which leaves patches at its default,
\* or a list of patch-level predictions.
MergeArgs == {None, [kind |-> "list", len |-> 0], [kind |-> "list", len |-> MaxDim]}

\* A variant that inherits PatchExtractor.merge_patches.
merge_patches_result_inherited(patches) == Raised("NotImplementedError")

\* raise MethodNotSupported(message=...), whatever patches is.
merge_patches_result(patches) == Raised("MethodNotSupported")

\* PointsPatchExtractor.merge_patches: no local of extract_patches is alive in
\* it, and it assigns no attribute.
merge_patches ==
    /\ pc \in {"idle", "done"}
    /\ \E patches \in MergeArgs :
          /\ call' = [op |-> "merge_patches", patches |-> patches]
          /\ outcome' = merge_patches_result(patches)
    /\ pc' = "done"
    /\ image' = <<>>
    /\ img_patches' = <<>>
    /\ labels' = <<>>
    /\ cell_id' = <<>>
    /\ cell_tot' = 1
    /\ iter_tot' = 0
    /\ row' = 1
    /\ h' = 0
    /\ w' = 0
    /\ win' = NoWindow
    /\ UNCHANGED self

-----------------------------------------------------------------------------
(* ModelABC: the pre-processing and post-processing hooks *)

\* The static methods ModelABC.preproc and ModelABC.postproc, as values.
preproc == [kind |-> "function", name |-> "preproc"]
postproc == [kind |-> "function", name |-> "postproc"]

\* What a caller may assign to a hook: None, the class's own or another
\* function, a module (a transform derived from torch.nn.Module), an int, a
\* str.
HookArgs ==
    {None, preproc, postproc,
     [kind |-> "function", name |-> "f"], [kind |-> "function", name |-> "g"],
     [kind |-> "Module", name |-> "m"], [kind |-> "Module", name |-> "k"],
     [kind |-> "int", name |-> "0"], [kind |-> "str", name |-> "s"]}

\* callable(func): functions have __call__, and so has torch.nn.Module.
callable(func) == func.kind \in {"function", "Module"}

\* self.<name> = value on a ModelABC, which is a torch.nn.Module: a Module
\* value is registered as a child module under the name; any other value
\* except None is refused with TypeError while the name holds a child module;
\* otherwise the attribute is set.  (None never reaches an assignment here.)
Module__setattr__(attrs, name, value) ==
    IF value.kind = "Module"
    THEN [self |-> [attrs EXCEPT ![name] = value], outcome |-> Returned(None)]
    ELSE IF attrs[name].kind = "Module"
    THEN [self |-> attrs, outcome |-> Raised("TypeError")]
    ELSE [self |-> [attrs EXCEPT ![name] = value], outcome |-> Returned(None)]

\* ModelABC.__init__: nn.Module's constructor, then both hooks are set to the
\* class's own.
ModelABC__init__ == [_postproc |-> postproc, _preproc |-> preproc]

\* The body of the setter of preproc_func.
preproc_func_set(attrs, func) ==
    IF func = None
    THEN Module__setattr__(attrs, "_preproc", preproc)
    ELSE IF callable(func)
    THEN Module__setattr__(attrs, "_preproc", func)
    ELSE [self |-> attrs, outcome |-> Raised("ValueError")]

\* The body of the setter of postproc_func.
postproc_func_set(attrs, func) ==
    IF func = None
    THEN Module__setattr__(attrs, "_postproc", postproc)
    ELSE IF callable(func)
    THEN Module__setattr__(attrs, "_postproc", func)
    ELSE [self |-> attrs, outcome |-> Raised("ValueError")]

\* model.preproc_func
preproc_func ==
    /\ call' = [op |-> "preproc_func"]
    /\ outcome' = Returned(self._preproc)
    /\ UNCHANGED self

\* model.preproc_func = func
preproc_func_setter ==
    \E func \in HookArgs :
        /\ call' = [op |-> "preproc_func.setter", func |-> func]
        /\ self' = preproc_func_set(self, func).self
        /\ outcome' = preproc_func_set(self, func).outcome

\* model.postproc_func
postproc_func ==
    /\ call' = [op |-> "postproc_func"]
    /\ outcome' = Returned(self._postproc)
    /\ UNCHANGED self

\* model.postproc_func = func
postproc_func_setter ==
    \E func \in HookArgs :
        /\ call' = [op |-> "postproc_func.setter", func |-> func]
        /\ self' = postproc_func_set(self, func).self
        /\ outcome' = postproc_func_set(self, func).outcome

-----------------------------------------------------------------------------
(* The specifications *)

NoCall == [op |-> "none"]

NoLocals ==
    /\ outcome = NoOutcome
    /\ pc = "idle"
    /\ image = <<>>
    /\ img_patches = <<>>
    /\ labels = <<>>
    /\ cell_id = <<>>
    /\ cell_tot = 1
    /\ iter_tot = 0
    /\ row = 1
    /\ h = 0
    /\ w = 0
    /\ win = NoWindow

\* An extractor before any call of extract_patches on it, its attributes as
\* PatchExtractor.__init__ and PointsPatchExtractor.__init__ assign them from
\* their arguments.  (What the constructor's call of super() does as written
\* is PointsPatchExtractor__init__ above.)
NoPrev == [op |-> "none"]

Init ==
    /\ self \in Extractors
    /\ call = NoCall
    /\ NoLocals
    /\ prev = NoPrev

Next ==
    \/ extract_patches /\ UNCHANGED prev
    \/ extract_patches_loop /\ UNCHANGED prev
    \/ extract_patches_return /\ UNCHANGED prev
    \/ merge_patches /\ UNCHANGED prev

Spec == Init /\ [][Next]_vars

\* Calls of extract_patches one after the other on one extractor, with the
\* history of the call before.  The extractors are those with a square patch
\* and the same padding along both axes.
RepeatExtractors ==
    {e \in Extractors : e.img_patch_h = e.img_patch_w /\ e.pad_y = e.pad_x}

InitRepeat ==
    /\ self \in RepeatExtractors
    /\ call = NoCall
    /\ NoLocals
    /\ prev = NoPrev

\* What a call that is over leaves for the history: the attributes and the
\* argument it ran with, and what it returned or raised.
Completed == [op |-> "extract_patches", self |-> self, input_img |-> call.input_img, outcome |-> outcome]

NextRepeat ==
    \/ extract_patches /\ prev' = (IF call.op = "extract_patches" THEN Completed ELSE prev)
    \/ extract_patches_loop /\ UNCHANGED prev
    \/ extract_patches_return /\ UNCHANGED prev

RepeatSpec == InitRepeat /\ [][NextRepeat]_vars

\* A ModelABC instance (of a concrete subclass that keeps preproc and
\* postproc) after construction, and the assignments to and reads of its two
\* hooks in any order.
InitHooks ==
    /\ self = ModelABC__init__
    /\ call = NoCall
    /\ NoLocals
    /\ prev = NoPrev

NoExtraction == UNCHANGED <<pc, image, img_patches, labels, cell_id, cell_tot, iter_tot, row, h, w, win, prev>>

NextHooks ==
    \/ preproc_func /\ NoExtraction
    \/ preproc_func_setter /\ NoExtraction
    \/ postproc_func /\ NoExtraction
    \/ postproc_func_setter /\ NoExtraction

HooksSpec == InitHooks /\ [][NextHooks]_vars

\* A call of the factory, about to run.
InitFactory ==
    /\ self = None
    /\ call \in FactoryCalls
    /\ NoLocals
    /\ prev = NoPrev

NextFactory == get_patch_extractor /\ UNCHANGED prev

FactorySpec == InitFactory /\ [][NextFactory]_vars

\* A call of get_last_steps, which reads no attribute of its extractor, about
\* to run.
InitLastSteps ==
    /\ self = None
    /\ call \in LastStepsCalls
    /\ NoLocals
    /\ prev = NoPrev

NextLastSteps == get_last_steps /\ UNCHANGED prev

LastStepsSpec == InitLastSteps /\ [][NextLastSteps]_vars

-----------------------------------------------------------------------------
(* Properties of get_patch_extractor, checked under FactorySpec *)

FactoryCalled == call.op = "get_patch_extractor" /\ outcome # NoOutcome

\* C1: get_patch_extractor("point") called with no other argument returns,
\* without raising, a PointsPatchExtractor whose img_patch_h and img_patch_w
\* are 224 and whose pad_y and pad_x are 0.
C1_PointWithDefaultsReturnsExtractor ==
    (/\ FactoryCalled
     /\ call.method_name = POINT
     /\ call.img_patch_h = DefaultPatch
     /\ call.img_patch_w = DefaultPatch
     /\ call.pad_y = DefaultPad
     /\ call.pad_x = DefaultPad
     /\ call.input_points = None)
    => /\ outcome.kind = "returned"
       /\ outcome.value.cls = "PointsPatchExtractor"
       /\ outcome.value.attrs.img_patch_h = 224
       /\ outcome.value.attrs.img_patch_w = 224
       /\ outcome.value.attrs.pad_y = 0
       /\ outcome.value.attrs.pad_x = 0

KnownMethods == {POINT, FIXEDWINDOW, VARIABLEWINDOW}

-----------------------------------------------------------------------------
(* Properties of get_last_steps, checked under LastStepsSpec *)

LastStepsCalled == call.op = "get_last_steps" /\ outcome # NoOutcome

\* C8: for image_dim >= patch_dim >= 1 and stride >= 1, get_last_steps returns
\* (ceil((image_dim - patch_dim) / stride) + 1) * stride, which is 8 for
\* (10, 4, 2); the result is a positive multiple of stride, and the last patch
\* start, the result less stride, is at least image_dim - patch_dim and less
\* than image_dim - patch_dim + stride.
C8_LastStepCoversTheAxis ==
    (/\ LastStepsCalled
     /\ call.image_dim >= call.label_patch_dim
     /\ call.label_patch_dim >= 1
     /\ call.stride >= 1)
    => LET d == call.image_dim - call.label_patch_dim
           s == call.stride
       IN  /\ outcome.kind = "returned"
           /\ \E c \in 0..d :
                 /\ (c - 1) * s < d
                 /\ d <= c * s
                 /\ outcome.value = (c + 1) * s
           /\ outcome.value > 0
           /\ outcome.value % s = 0
           /\ d <= outcome.value - s
           /\ outcome.value - s < d + s
           /\ (call.image_dim = 10 /\ call.label_patch_dim = 4 /\ s = 2)
                 => outcome.value = 8

\* get_last_steps(10, 4, 2) returned 8.
C8_Witness ==
    /\ LastStepsCalled
    /\ call.image_dim = 10
    /\ call.label_patch_dim = 4
    /\ call.stride = 2
    /\ outcome = Returned(8)

\* C9 as stated: get_last_steps has no error condition; for every combination
\* of integer arguments, stride = 0 included, it returns without raising.
C9_NeverRaises ==
    LastStepsCalled => outcome.kind = "returned"

\* C9 as amended: get_last_steps returns an integer without raising for every
\* integer image_dim and patch_dim and every stride other than 0, a negative
\* stride and patch_dim > image_dim included; with stride = 0 it raises
\* ZeroDivisionError.
C9_RaisesExactlyOnZeroStride ==
    LastStepsCalled =>
        IF call.stride = 0
        THEN outcome = Raised("ZeroDivisionError")
        ELSE /\ outcome.kind = "returned"
             /\ outcome.value \in Int

\* get_last_steps was called with stride 0 and a patch larger than the image,
\* and raised.
C9_Witness ==
    /\ LastStepsCalled
    /\ call.stride = 0
    /\ call.label_patch_dim > call.image_dim
    /\ outcome.kind = "raised"

-----------------------------------------------------------------------------
(* Properties of extract_patches, checked under Spec *)

\* The call got past its type checks: the image is padded, the slots allocated.
Entered == call.op = "extract_patches" /\ image # <<>>

Points == self.input_points.rows
N == self.num_examples_per_patch
PatchH == self.img_patch_h
PatchW == self.img_patch_w
SrcH == Len(call.input_img.array)
SrcW == Len(call.input_img.array[1])
PaddedH == SrcH + 2 * self.pad_y
PaddedW == SrcW + 2 * self.pad_x

\* N is side * side for an odd side.
OddSquare == \E k \in 1..N : k * k = N /\ k % 2 = 1
Side == CHOOSE k \in 1..N : k * k = N

\* The corner the claims give the window of output position i (0-indexed):
\* point floor(i / N), grid row r and column c with i mod N = r * Side + c.
CornerTop(i) ==
    LET y == Points[(i \div N) + 1][3]
        r == (i % N) \div Side
    IN  (y + self.pad_y - 1) - (r - (Side \div 2)) - ((PatchH - 1) \div 2)

CornerLeft(i) ==
    LET x == Points[(i \div N) + 1][2]
        c == (i % N) % Side
    IN  (x + self.pad_x - 1) - (c - (Side \div 2)) - ((PatchW - 1) \div 2)

\* The window with that corner lies inside the padded image.
InsidePadded(top, left) ==
    /\ 0 <= top
    /\ top + PatchH <= PaddedH
    /\ 0 <= left
    /\ left + PatchW <= PaddedW

\* The pixels of the padded image under that window.
WindowAt(top, left) ==
    [a \in 1..PatchH |-> [b \in 1..PatchW |-> image[top + a][left + b]]]

AllWindowsInside ==
    \A i \in 0..(Len(Points) * N - 1) : InsidePadded(CornerTop(i), CornerLeft(i))

\* The last slot assignment succeeded, so win holds the window of slot
\* iter_tot - 1.
LastWritten == Entered /\ iter_tot > 0 /\ outcome.kind # "raised"

\* C2: for every valid input (points an array, num_examples_per_patch the
\* square of an odd integer, every window inside the padded image) the call
\* does not fail and returns len(points) * num_examples_per_patch patches, as
\* many labels and as many ids, and every slot holds an extracted patch (pixels
\* of the image, none left at zero) with its label and its id.
C2_ResultLengths ==
    (Entered /\ OddSquare /\ AllWindowsInside)
    => /\ outcome.kind # "raised"
       /\ iter_tot <= Len(Points) * N
       /\ outcome.kind = "returned" =>
             LET res == outcome.value
                 total == Len(Points) * N
             IN  /\ Len(res.img_patches) = total
                 /\ Len(res.labels) = total
                 /\ Len(res.cell_id) = total
                 /\ \A i \in 1..total :
                       /\ res.labels[i] # EmptyList
                       /\ res.cell_id[i] # EmptyList
                       /\ Len(res.img_patches[i]) = PatchH
                       /\ \A a \in 1..PatchH :
                             /\ Len(res.img_patches[i][a]) = PatchW
                             /\ \A b \in 1..PatchW : res.img_patches[i][a][b] > 0

\* A valid call on two points with nine examples each has returned.
C2_Witness ==
    /\ Entered
    /\ OddSquare
    /\ AllWindowsInside
    /\ Len(Points) = 2
    /\ N = 9
    /\ outcome.kind = "returned"
    /\ Len(outcome.value.img_patches) = 18

\* C3: with num_examples_per_patch = side * side (side odd) the patches appear
\* point by point in input order and, within a point, in row-major order of
\* the offsets dh, dw in -floor(side/2)..floor(side/2): the window computed for
\* position r * side + c of point p has its top-left corner at
\* (cy - dh - floor((patch_h-1)/2), cx - dw - floor((patch_w-1)/2)), with
\* cy = y + pad_y - 1, cx = x + pad_x - 1, dh = r - floor(side/2) and
\* dw = c - floor(side/2), and the patch at that position is the
\* patch_h x patch_w window of the padded image with that corner, for every
\* position whose window the padded image contains.
C3_PatchOrderAndWindow ==
    (Entered /\ OddSquare)
    => /\ LastWritten =>
             /\ win.start_h = CornerTop(iter_tot - 1)
             /\ win.start_w = CornerLeft(iter_tot - 1)
             /\ win.end_h = win.start_h + PatchH
             /\ win.end_w = win.start_w + PatchW
       /\ \A i \in 0..(iter_tot - 1) :
             InsidePadded(CornerTop(i), CornerLeft(i))
                => img_patches[i + 1] = WindowAt(CornerTop(i), CornerLeft(i))
       /\ outcome.kind = "returned" =>
             /\ outcome.value.img_patches = img_patches
             /\ iter_tot = Len(img_patches)

\* Two points with nine examples each: the call has returned, every window
\* inside the padded image.
C3_Witness ==
    /\ Entered
    /\ N = 9
    /\ Len(Points) = 2
    /\ Points[1] # Points[2]
    /\ AllWindowsInside
    /\ outcome.kind = "returned"
    /\ outcome.value.img_patches[18] = WindowAt(CornerTop(17), CornerLeft(17))

\* C4: with a valid num_examples_per_patch = n the labels and ids are parallel
\* to the patches: labels[i] is the label of input point floor(i / n) and
\* ids[i] = floor(i / n) + 1, so the identifier starts at 1, is shared by the n
\* patches of a point and grows by 1 per input point, not per patch.
C4_LabelsAndIdsPerPoint ==
    (Entered /\ OddSquare)
    => /\ \A i \in 0..(iter_tot - 1) :
             /\ labels[i + 1] = Points[(i \div N) + 1][1]
             /\ cell_id[i + 1] = (i \div N) + 1
       /\ outcome.kind = "returned" =>
             /\ outcome.value.labels = labels
             /\ outcome.value.cell_id = cell_id
             /\ iter_tot = Len(labels)
             /\ Len(labels) = Len(outcome.value.img_patches)
             /\ Len(cell_id) = Len(labels)

\* Two points of different labels with nine examples each: the call has
\* returned ids 1 (nine times) and 2 (nine times).
C4_Witness ==
    /\ Entered
    /\ N = 9
    /\ Len(Points) = 2
    /\ Points[1][1] # Points[2][1]
    /\ outcome.kind = "returned"
    /\ outcome.value.cell_id[9] = 1
    /\ outcome.value.cell_id[10] = 2
    /\ outcome.value.labels[10] = Points[2][1]

\* Rows of the last window above and below the point's row, columns of it to
\* the left and to the right of the point's column.
PointRow == Points[((iter_tot - 1) \div N) + 1][3] + self.pad_y - 1
PointCol == Points[((iter_tot - 1) \div N) + 1][2] + self.pad_x - 1
RowsAbove == PointRow - win.start_h
RowsBelow == win.end_h - 1 - PointRow
ColsLeft == PointCol - win.start_w
ColsRight == win.end_w - 1 - PointCol

\* C5 as stated: for num_examples_per_patch = 1 and every patch height and
\* width each patch is exactly centered on its point: as many patch rows
\* above the point's pixel as below it, as many columns to its left as to its
\* right.  (Stated here of the windows inside the padded image alone.)
C5_ExactlyCentered ==
    (LastWritten /\ N = 1 /\ InsidePadded(win.start_h, win.start_w))
    => /\ RowsAbove = RowsBelow
       /\ ColsLeft = ColsRight

\* C5 as amended: for num_examples_per_patch = 1 the point's pixel is at row
\* floor((patch_h-1)/2) and column floor((patch_w-1)/2) of its window: exactly
\* centered along an axis whose patch size is odd, and with one more row below
\* than above (one more column right than left) along an axis whose patch size
\* is even; when the window lies inside the padded image the patch holds the
\* padded image's pixel of the point at that place.
C5_CenteredUpToParity ==
    (LastWritten /\ N = 1)
    => /\ RowsAbove = (PatchH - 1) \div 2
       /\ ColsLeft = (PatchW - 1) \div 2
       /\ RowsBelow = RowsAbove + (IF PatchH % 2 = 0 THEN 1 ELSE 0)
       /\ ColsRight = ColsLeft + (IF PatchW % 2 = 0 THEN 1 ELSE 0)
       /\ InsidePadded(win.start_h, win.start_w) =>
             img_patches[iter_tot][RowsAbove + 1][ColsLeft + 1]
                = image[PointRow + 1][PointCol + 1]

\* One example per point, an even patch height and an odd patch width: a patch
\* has been written from a window inside the padded image.
C5_Witness ==
    /\ LastWritten
    /\ N = 1
    /\ PatchH % 2 = 0
    /\ PatchW % 2 = 1
    /\ InsidePadded(win.start_h, win.start_w)
    /\ RowsBelow = RowsAbove + 1
    /\ ColsLeft = ColsRight

\* The padding the documented precondition asks for, and points given in the
\* 1-indexed convention inside the unpadded image.
MaxOffset == IntSqrt(N) \div 2
PaddingCovers ==
    /\ self.pad_y >= (PatchH \div 2) + MaxOffset
    /\ self.pad_x >= (PatchW \div 2) + MaxOffset
PointsInImage ==
    \A p \in DOMAIN Points :
        /\ 1 <= Points[p][2] /\ Points[p][2] <= SrcW
        /\ 1 <= Points[p][3] /\ Points[p][3] <= SrcH

\* C6: if pad_y >= patch_h // 2 + m and pad_x >= patch_w // 2 + m, with m the
\* largest grid offset floor(sqrt(num_examples_per_patch) / 2), then for points
\* with 1 <= x <= W and 1 <= y <= H every computed window lies inside the
\* padded image (0 <= start_h, end_h <= H + 2*pad_y, 0 <= start_w,
\* end_w <= W + 2*pad_x), every slice has the full patch_h x patch_w shape and
\* no slot assignment fails.
C6_PaddingKeepsWindowsInside ==
    (Entered /\ PaddingCovers /\ PointsInImage)
    => /\ outcome.kind # "raised"
       /\ iter_tot > 0 =>
             /\ 0 <= win.start_h
             /\ win.end_h <= PaddedH
             /\ 0 <= win.start_w
             /\ win.end_w <= PaddedW
             /\ win.end_h - win.start_h = PatchH
             /\ win.end_w - win.start_w = PatchW
             /\ Len(img_patches[iter_tot]) = PatchH
             /\ Len(img_patches[iter_tot][1]) = PatchW
             /\ img_patches[iter_tot] = WindowAt(win.start_h, win.start_w)

\* Padding exactly as large as the precondition asks, nine examples, a point
\* in the last row of the image: a window of it has been written that ends at
\* the last row of the padded image.
C6_Witness ==
    /\ LastWritten
    /\ PointsInImage
    /\ N = 9
    /\ self.pad_y = (PatchH \div 2) + MaxOffset
    /\ self.pad_x = (PatchW \div 2) + MaxOffset
    /\ win.end_h = PaddedH
    /\ img_patches[iter_tot] = WindowAt(win.start_h, win.start_w)

\* The window last computed extends outside the padded image.
WindowOutside ==
    \/ win.start_h < 0
    \/ win.end_h > PaddedH
    \/ win.start_w < 0
    \/ win.end_w > PaddedW

\* The rows and the columns that Python's slicing keeps of the window last
\* computed.
KeptRows == Len(SliceIndices(win.start_h, win.end_h, PaddedH))
KeptCols == Len(SliceIndices(win.start_w, win.end_w, PaddedW))

\* C7 as stated: extract_patches does not fail when a computed window extends
\* outside the padded image; the call takes the smaller slice and completes.
\* (Stated here of points that lie in the image alone.)
C7_NeverFailsOutside ==
    (Entered /\ PointsInImage) => outcome.kind # "raised"

\* C7 as amended: extract_patches makes no bounds check of its own.  A window
\* that extends outside the padded image is sliced as Python slices it (clipped
\* at the far edge, a negative bound counted from the end), and the slot
\* assignment succeeds exactly when the slice has patch_h rows or one row and
\* patch_w columns or one column, which numpy broadcasts; with any other slice
\* it raises ValueError and the call returns nothing.  A call that returns
\* returns len(points) * num_examples_per_patch patches, labels and ids.
C7_OutsideWindowsBroadcastOrRaise ==
    Entered =>
        /\ (iter_tot > 0 \/ outcome.kind = "raised") =>
              (outcome = Raised("ValueError")
                 <=> ~(/\ KeptRows \in {PatchH, 1}
                       /\ KeptCols \in {PatchW, 1}))
        /\ outcome.kind = "raised" => WindowOutside
        /\ outcome.kind = "returned" =>
              /\ Len(outcome.value.img_patches) = Len(Points) * N
              /\ Len(outcome.value.labels) = Len(Points) * N
              /\ Len(outcome.value.cell_id) = Len(Points) * N

\* A window outside the padded image whose slice is too small to broadcast:
\* the call has raised ValueError.
C7_Witness ==
    /\ Entered
    /\ WindowOutside
    /\ outcome = Raised("ValueError")
    /\ KeptRows < PatchH

\* A call returned although a window extended outside the padded image: its
\* slice of a single row was broadcast over the patch.
C7_WitnessBroadcast ==
    /\ Entered
    /\ WindowOutside
    /\ outcome.kind = "returned"
    /\ KeptRows = 1
    /\ PatchH > 1

-----------------------------------------------------------------------------
\* C11: merge_patches on a PointsPatchExtractor raises MethodNotSupported for
\* every argument, the default included, so it never returns an image, and the
\* call leaves every attribute of the extractor as it was.
C11_MergeAlwaysRaises ==
    /\ [](call.op = "merge_patches" => outcome = Raised("MethodNotSupported"))
    /\ [][call'.op = "merge_patches" => self' = self]_vars

\* merge_patches has been called with no argument on an extractor whose points
\* are set.
C11_Witness ==
    /\ call = [op |-> "merge_patches", patches |-> None]
    /\ outcome.kind = "raised"
    /\ self.input_points # None

-----------------------------------------------------------------------------
\* The call's points are not an array, or its image is neither a path nor an
\* array.
WrongTypes ==
    /\ call.op = "extract_patches"
    /\ \/ self.input_points.kind # "ndarray"
       \/ call.input_img.kind \notin {"str", "ndarray"}

C13_WitnessPoints ==
    /\ WrongTypes
    /\ self.input_points = None
    /\ call.input_img.kind = "ndarray"
    /\ outcome.kind = "raised"

-----------------------------------------------------------------------------
\* floor(sqrt(n)) for the call's n, and the offsets of a grid of that side
\* around a point.
FloorSqrt == CHOOSE k \in 0..N : k * k <= N /\ N < (k + 1) * (k + 1)
PerPoint == FloorSqrt * FloorSqrt
GridOffsets == {d - (FloorSqrt \div 2) : d \in 0..(FloorSqrt - 1)}

\* Every window of every point's grid lies inside the padded image.
GridWindowsInside ==
    \A p \in 1..Len(Points) : \A dh \in GridOffsets : \A dw \in GridOffsets :
        InsidePadded((Points[p][3] + self.pad_y - 1) - dh - ((PatchH - 1) \div 2),
                     (Points[p][2] + self.pad_x - 1) - dw - ((PatchW - 1) \div 2))

\* The point (1-indexed) that output position i (0-indexed) belongs to when
\* every point takes PerPoint consecutive positions.
OwnerOf(i) == (i \div PerPoint) + 1

\* C15: for every n >= 1, square or not, and every points array whose windows
\* all lie inside the padded image, the call writes floor(sqrt(n))^2 <= n
\* patches per point, one after the other from position 0 on, so iter_tot
\* never passes the len(points) * n allocated slots and the call does not
\* raise.  The result keeps len(points) * n slots: the written ones hold the
\* patch, label and id of their point, the remaining
\* len(points) * (n - floor(sqrt(n))^2) at the end hold an all-zero patch and
\* an empty list for the label and for the id.  When n is not a square, the
\* patches of a point p >= 1 (0-indexed) start at p * floor(sqrt(n))^2, before
\* p * n.
C15_FloorSqrtSquaredPerPoint ==
    (Entered /\ GridWindowsInside)
    => LET total == Len(Points) * N
           written == Len(Points) * PerPoint
       IN  /\ outcome.kind # "raised"
           /\ PerPoint >= 1
           /\ PerPoint <= N
           /\ iter_tot <= written
           /\ written <= total
           /\ LastWritten =>
                 /\ labels[iter_tot] = Points[OwnerOf(iter_tot - 1)][1]
                 /\ cell_id[iter_tot] = OwnerOf(iter_tot - 1)
           /\ outcome.kind = "returned" =>
                 LET res == outcome.value
                 IN  /\ iter_tot = written
                     /\ Len(res.img_patches) = total
                     /\ Len(res.labels) = total
                     /\ Len(res.cell_id) = total
                     /\ \A i \in 1..written :
                           /\ res.labels[i] = Points[OwnerOf(i - 1)][1]
                           /\ res.cell_id[i] = OwnerOf(i - 1)
                           /\ \A a \in 1..PatchH : \A b \in 1..PatchW :
                                 res.img_patches[i][a][b] > 0
                     /\ \A i \in (written + 1)..total :
                           /\ res.labels[i] = EmptyList
                           /\ res.cell_id[i] = EmptyList
                           /\ \A a \in 1..PatchH : \A b \in 1..PatchW :
                                 res.img_patches[i][a][b] = 0
                     /\ PerPoint < N =>
                           \A p \in 1..(Len(Points) - 1) :
                               /\ p * PerPoint < p * N
                               /\ res.cell_id[p * PerPoint + 1] = p + 1
                               /\ res.cell_id[p * PerPoint] = p

\* A call with n = 5 on two points has returned: four patches each, the second
\* point's from position 4 on, and the last two of the ten slots unfilled.
C15_Witness ==
    /\ Entered
    /\ GridWindowsInside
    /\ N = 5
    /\ Len(Points) = 2
    /\ outcome.kind = "returned"
    /\ outcome.value.cell_id[5] = 2
    /\ outcome.value.cell_id[8] = 2
    /\ outcome.value.labels[9] = EmptyList
    /\ outcome.value.cell_id[10] = EmptyList

\* A call with n = 2 on one point has returned: one patch, one slot unfilled.
C15_WitnessTwo ==
    /\ Entered
    /\ GridWindowsInside
    /\ N = 2
    /\ Len(Points) = 1
    /\ outcome.kind = "returned"
    /\ outcome.value.cell_id = <<1, EmptyList>>

-----------------------------------------------------------------------------
\* A call of extract_patches is over and the one before it ran with the same
\* attributes and the same image argument.
Repeated ==
    /\ call.op = "extract_patches"
    /\ pc = "done"
    /\ prev # NoPrev
    /\ prev.self = self
    /\ prev.input_img = call.input_img

\* C12: extract_patches is repeatable.  No step of any call changes an
\* attribute of the extractor (img_patch_h, img_patch_w, pad_y, pad_x,
\* input_points, num_examples_per_patch) or, while the call runs, the caller's
\* image argument; every call starts from the same locals whatever the call
\* before it left; and a call with the inputs of the call before it ends as
\* that one did: the same patches, labels and ids, or the same exception.
C12_Repeatable ==
    /\ [](Repeated => outcome = prev.outcome)
    /\ [](prev # NoPrev => prev.self = self)
    /\ [][self' = self]_vars
    /\ [][pc = "loop" => call' = call]_vars
    /\ [][pc = "done" /\ pc' # "done" => cell_tot' = 1 /\ iter_tot' = 0 /\ row' = 1]_vars

\* The same call was made twice on two points and returned patches both times.
C12_Witness ==
    /\ Repeated
    /\ outcome.kind = "returned"
    /\ Len(self.input_points.rows) = 2
    /\ Len(outcome.value.img_patches) > 2
    /\ outcome.value.cell_id[Len(outcome.value.cell_id)] = 2

-----------------------------------------------------------------------------
\* The assignments to a hook, and the values that are neither None nor
\* callable.
HookSetters == {"preproc_func.setter", "postproc_func.setter"}
NotCallable(func) == func # None /\ ~callable(func)

\* C14: on a ModelABC instance, after any sequence of assignments to
\* preproc_func and postproc_func, each hook is callable and its getter returns
\* it; an assignment of None leaves the hook at the class's own preproc
\* (postproc); an assignment of a callable leaves the hook at exactly that
\* callable; an assignment of a value that is neither raises ValueError and
\* changes neither hook; and an assignment to one hook does not change the
\* other.
C14_HooksFollowAssignments ==
    /\ [](callable(self._preproc) /\ callable(self._postproc))
    /\ [](call.op = "preproc_func" => outcome = Returned(self._preproc))
    /\ [](call.op = "postproc_func" => outcome = Returned(self._postproc))
    /\ [][(call'.op \in HookSetters /\ NotCallable(call'.func))
            => (outcome' = Raised("ValueError") /\ self' = self)]_vars
    /\ [][call'.op = "preproc_func.setter" => self'._postproc = self._postproc]_vars
    /\ [][call'.op = "postproc_func.setter" => self'._preproc = self._preproc]_vars
    /\ [](call.op = "preproc_func.setter" /\ callable(call.func) => self._preproc = call.func)
    /\ [](call.op = "postproc_func.setter" /\ callable(call.func) => self._postproc = call.func)
    /\ [](call.op = "preproc_func.setter" /\ call.func = None => self._preproc = preproc)
    /\ [](call.op = "postproc_func.setter" /\ call.func = None => self._postproc = postproc)

====
